---------------------------- MODULE Spec2Model ----------------------------
(***************************************************************************)
(* Model of adafruit_pcf8575.py: the PCF8575 register interface (two       *)
(* 2-byte buffers over an I2C device) and the DigitalInOut pin handle.     *)
(* Handlers are written as operators over a machine record m, so that a    *)
(* handler that calls another one is the composition of the two; an        *)
(* exception raised by a step makes every later step of the call a no-op.  *)
(***************************************************************************)
EXTENDS Integers, Sequences, FiniteSets

\* ------------------------------------------------------------- bounds
\* How many entries of PinList the register-level calls draw their pin from.
NumPins == 2
\* How many DigitalInOut objects are alive in one run.
MaxHandles == 1

\* How many bits of the values of the round-trip runs differ from 0x0000 or
\* from 0xFFFF.
MaxFlips == 2

\* The largest value of the 16-bit register.
RegMax == 65535

PinList == <<3, 15, 0, 8, 7, 12>>
Pins == {PinList[i] : i \in 1..NumPins}
\* Pin numbers handed to DigitalInOut / get_pin: the borders and the outside.
HandlePins == {-1, 0, 15, 16}
AllPins == 0..15
\* Values handed to write_gpio by the sequential specifications.
GpioVals == {0, RegMax}
Threads == {1, 2}

RECURSIVE UpTo(_)
\* The sets of at most k pins.
UpTo(k) ==
    IF k = 0 THEN {{}}
    ELSE UpTo(k - 1) \cup {S \cup {p} : S \in UpTo(k - 1), p \in AllPins}

\* ------------------------------------------------------- bit arithmetic
Pow2(n) == 2 ^ n

\* (v >> i) & 0x1
Bit(v, i) == (v \div Pow2(i)) % 2

\* buff | (1 << pin)
OrBit(buff, pin) == IF Bit(buff, pin) = 1 THEN buff ELSE buff + Pow2(pin)

\* buff & ~(1 << pin)
AndNotBit(buff, pin) == IF Bit(buff, pin) = 1 THEN buff - Pow2(pin) ELSE buff

\* The two bytes in the other order.
EncodeHighFirst(val) == <<(val \div 256) % 256, val % 256>>

\* [val & 0xFF, (val >> 8) & 0xFF]
Encode(val) == <<val % 256, (val \div 256) % 256>>

\* buf[0] | (buf[1] << 8)
Decode(buf) == buf[1] + buf[2] * 256

RECURSIVE SumBits(_)
\* The number whose set bits are the positions in S.
SumBits(S) ==
    IF S = {} THEN 0
    ELSE LET i == CHOOSE x \in S : TRUE IN Pow2(i) + SumBits(S \ {i})

\* ------------------------------------------------------- the chip
\* The latch the chip takes from the two bytes of a write: P00..P07 from the
\* first byte, P10..P17 from the second.
LatchOf(bytes) == SumBits({i \in 0..7 : Bit(bytes[1], i) = 1})
                  + 256 * SumBits({i \in 0..7 : Bit(bytes[2], i) = 1})

\* The two bytes the chip sends for a read, P00..P07 then P10..P17: a pin
\* reads high when its latch bit is 1 and nothing outside pulls it low
\* (quasi-bidirectional port).
PortBytes(latch, low) ==
    <<SumBits({i \in 0..7 : Bit(latch, i) = 1 /\ i \notin low}),
      SumBits({i \in 0..7 : Bit(latch, i + 8) = 1 /\ (i + 8) \notin low})>>

\* Values handed to write_gpio by the round-trip runs.
RTVals == {SumBits(S) : S \in UpTo(MaxFlips)}
          \cup {RegMax - SumBits(S) : S \in UpTo(MaxFlips)}

\* ------------------------------------------------------------- state
VARIABLES
    writebuf,   \* PCF8575._writebuf
    readbuf,    \* PCF8575._readbuf
    dev,        \* the chip's output latch (what the last acknowledged write set)
    ext,        \* pins an outside circuit pulls low
    dirs,       \* DigitalInOut._dir of the handle on each pin number, or "none"
    call,       \* the last call: name, pin, arg, raised, ret, tx, rx
    writes,     \* "none", "first" or "later": register writes called so far
    acked,      \* the value of the last bus write acknowledged in full, or -1
    faulty,     \* whether the bus may fail a transaction
    want,       \* the argument of the last write_gpio call, or -1
    serialized, \* whether the threads run write_pin as one critical section
    th          \* per thread: pc, pin, val and the value write_pin computed

vars == <<writebuf, readbuf, dev, ext, dirs, call, writes, acked, faulty,
          want, serialized, th>>

NoCall == [name |-> "init", pin |-> -2, arg |-> "none", raised |-> "none",
           ret |-> "none", tx |-> <<>>, rx |-> 0]

IdleThread == [pc |-> "idle", pin |-> -2, val |-> FALSE, lo |-> 0, v |-> 0]

\* PCF8575.__init__ followed by nothing: the chip is at its power-on latch.
InitCommon ==
    /\ writebuf = <<0, 0>>
    /\ readbuf = <<0, 0>>
    /\ dev = RegMax
    /\ ext = {}
    /\ dirs = [p \in HandlePins |-> "none"]
    /\ call = NoCall
    /\ writes = "none"
    /\ acked = -1
    /\ want = -1
    /\ th = [t \in Threads |-> IdleThread]

Init == InitCommon /\ faulty = FALSE /\ serialized = TRUE

\* The same object on a bus whose transactions may fail.
InitFault == InitCommon /\ faulty = TRUE /\ serialized = TRUE

\* Two threads share the object, with or without a lock around write_pin.
InitThreads == InitCommon /\ faulty = FALSE /\ serialized \in BOOLEAN

\* The machine a call starts on: the object fields, the device, and the
\* outcomes the bus will give to the call's transactions.
Machine(oks) ==
    [writebuf |-> writebuf, readbuf |-> readbuf, dev |-> dev, ext |-> ext,
     dirs |-> dirs, acked |-> acked, oks |-> oks, tx |-> <<>>, rx |-> 0,
     raised |-> "none", ret |-> "none"]

\* What the bus does with a transaction: it completes ("ack"), or the chip
\* does not answer its address and the bus raises OSError ("nack").
Outcomes == IF faulty THEN {"ack", "nack"} ELSE {"ack"}
\* The outcomes of a call's bus transactions: at most two (switch_to_*).
OkSeqs == {<<a, b>> : a \in Outcomes, b \in Outcomes}
\* The outcome of the one bus transaction of the other calls.
OkOnce == {<<a>> : a \in Outcomes}

Raise(m, exc) == IF m.raised # "none" THEN m ELSE [m EXCEPT !.raised = exc]

\* ------------------------------------------------------------ the bus
\* with self.i2c_device as i2c: i2c.write(self._writebuf)
i2c_write(m) ==
    IF m.raised # "none" THEN m
    ELSE LET ok == Head(m.oks) IN
         [m EXCEPT !.oks = Tail(@),
                   !.tx = Append(@, m.writebuf),
                   !.dev = IF ok = "ack" THEN LatchOf(m.writebuf) ELSE @,
                   !.acked = IF ok = "ack" THEN LatchOf(m.writebuf) ELSE @,
                   !.raised = IF ok = "ack" THEN "none" ELSE "OSError"]

\* with self.i2c_device as i2c: i2c.readinto(self._readbuf)
i2c_readinto(m) ==
    IF m.raised # "none" THEN m
    ELSE LET ok == Head(m.oks) IN
         [m EXCEPT !.oks = Tail(@),
                   !.rx = @ + 1,
                   !.readbuf = IF ok = "ack" THEN PortBytes(m.dev, m.ext) ELSE @,
                   !.raised = IF ok = "ack" THEN "none" ELSE "OSError"]

\* ------------------------------------------------------------ PCF8575
\* The two buffer stores of write_gpio.
store_writebuf(m, val) ==
    IF m.raised # "none" THEN m ELSE [m EXCEPT !.writebuf = Encode(val)]

\* A write_gpio that puts the buffer back when the bus write fails.
write_gpio_restoring(m, val) ==
    LET r == i2c_write(store_writebuf(m, val)) IN
    IF r.raised = "OSError" THEN [r EXCEPT !.writebuf = m.writebuf] ELSE r

write_gpio(m, val) == i2c_write(store_writebuf(m, val))

read_gpio(m) ==
    LET r == i2c_readinto(m) IN
    IF r.raised # "none" THEN r ELSE [r EXCEPT !.ret = Decode(r.readbuf)]

\* A write_pin that sends the pin's mask alone.
pin_value_mask_only(buff, pin, val) == IF val THEN Pow2(pin) ELSE 0

\* The value write_pin hands to write_gpio.
pin_value(buff, pin, val) ==
    IF val THEN OrBit(buff, pin) ELSE AndNotBit(buff, pin)

\* A write_pin that starts from what was last read from the chip.
pin_base_from_readbuf(m) == Decode(m.readbuf)

\* The cached value write_pin starts from.
pin_base(m) == Decode(m.writebuf)

write_pin(m, pin, val) ==
    IF m.raised # "none" THEN m
    ELSE IF pin < 0 THEN Raise(m, "ValueError")   \* 1 << pin, negative shift
    ELSE write_gpio(m, pin_value(pin_base(m), pin, val))

read_pin(m, pin) ==
    LET r == read_gpio(m) IN
    IF r.raised # "none" THEN r
    ELSE IF pin < 0 THEN Raise(r, "ValueError")   \* >> pin, negative shift
    ELSE [r EXCEPT !.ret = (Bit(r.ret, pin) = 1)]

\* ------------------------------------------------------- DigitalInOut
\* DigitalInOut.__init__: no check of pin_number, no bus traffic.
DigitalInOut_init(m, pin) ==
    IF m.raised # "none" THEN m ELSE [m EXCEPT !.dirs[pin] = "INPUT"]

\* PCF8575.get_pin: assert 0 <= pin <= 15, then the constructor.
get_pin(m, pin) ==
    IF ~(0 <= pin /\ pin <= 15) THEN Raise(m, "AssertionError")
    ELSE DigitalInOut_init(m, pin)

value_get(m, pin) == read_pin(m, pin)

value_set(m, pin, val) == write_pin(m, pin, val)

\* The bit the direction setter writes for a direction.
direction_level(val) == (val = "INPUT")

direction_set(m, pin, val) ==
    IF m.raised # "none" THEN m
    ELSE IF val \in {"INPUT", "OUTPUT"}
         THEN LET w == write_pin(m, pin, direction_level(val)) IN
              IF w.raised # "none" THEN w ELSE [w EXCEPT !.dirs[pin] = val]
         ELSE Raise(m, "ValueError")

\* A pull setter that takes any pull that is set for Pull.UP.
pull_is_set(val) == (val # "None")

\* val is digitalio.Pull.UP
pull_is_up(val) == (val = "UP")

pull_set(m, pin, val) ==
    IF m.raised # "none" THEN m
    ELSE IF pull_is_up(val) THEN write_pin(m, pin, TRUE)
    ELSE Raise(m, "NotImplementedError")

switch_to_output(m, pin, value) ==
    value_set(direction_set(m, pin, "OUTPUT"), pin, value)

switch_to_input(m, pin, pull) ==
    pull_set(direction_set(m, pin, "INPUT"), pin, pull)

\* ------------------------------------------------------------ actions
\* The state after a call that ran the machine to m.
CommitCall(m, name, pin, arg) ==
    /\ writebuf' = m.writebuf
    /\ readbuf' = m.readbuf
    /\ dev' = m.dev
    /\ dirs' = m.dirs
    /\ acked' = m.acked
    /\ call' = [name |-> name, pin |-> pin, arg |-> arg, raised |-> m.raised,
                ret |-> m.ret, tx |-> m.tx, rx |-> m.rx]
    /\ writes' = IF m.tx = <<>> THEN writes
                 ELSE IF writes = "none" THEN "first" ELSE "later"
    /\ want' = IF name = "write_gpio" THEN arg
               ELSE IF m.tx = <<>> THEN want ELSE -1
    /\ UNCHANGED <<ext, faulty, serialized>>

Commit(m, name, pin, arg) == CommitCall(m, name, pin, arg) /\ UNCHANGED th

Handles == {p \in HandlePins : dirs[p] # "none"}

CanConstruct(p) == p \in Handles \/ Cardinality(Handles) < MaxHandles

CallWriteGpio ==
    \E val \in GpioVals, oks \in OkOnce :
        Commit(write_gpio(Machine(oks), val), "write_gpio", -2, val)

CallReadGpio ==
    \E oks \in OkOnce : Commit(read_gpio(Machine(oks)), "read_gpio", -2, "none")

CallWritePin ==
    \E pin \in Pins, val \in BOOLEAN, oks \in OkOnce :
        Commit(write_pin(Machine(oks), pin, val), "write_pin", pin, val)

CallReadPin ==
    \E pin \in Pins, oks \in OkOnce :
        Commit(read_pin(Machine(oks), pin), "read_pin", pin, "none")

NewDigitalInOut ==
    \E pin \in HandlePins, oks \in OkOnce :
        /\ CanConstruct(pin)
        /\ Commit(DigitalInOut_init(Machine(oks), pin), "DigitalInOut", pin, "none")

CallGetPin ==
    \E pin \in HandlePins, oks \in OkOnce :
        /\ CanConstruct(pin)
        /\ Commit(get_pin(Machine(oks), pin), "get_pin", pin, "none")

GetValue ==
    \E pin \in Handles, oks \in OkOnce :
        Commit(value_get(Machine(oks), pin), "value_get", pin, "none")

SetValue ==
    \E pin \in Handles, val \in BOOLEAN, oks \in OkOnce :
        Commit(value_set(Machine(oks), pin, val), "value_set", pin, val)

SetDirection ==
    \E pin \in Handles, val \in {"INPUT", "OUTPUT", "other"}, oks \in OkOnce :
        Commit(direction_set(Machine(oks), pin, val), "direction_set", pin, val)

SetPull ==
    \E pin \in Handles, val \in {"UP", "DOWN", "None"}, oks \in OkOnce :
        Commit(pull_set(Machine(oks), pin, val), "pull_set", pin, val)

SwitchToOutput ==
    \E pin \in Handles, value \in BOOLEAN, oks \in OkSeqs :
        Commit(switch_to_output(Machine(oks), pin, value),
               "switch_to_output", pin, value)

SwitchToInput ==
    \E pin \in Handles, pull \in {"UP", "DOWN", "None"}, oks \in OkSeqs :
        Commit(switch_to_input(Machine(oks), pin, pull),
               "switch_to_input", pin, pull)

\* An outside circuit starts or stops pulling a pin low.
ExternalDrive ==
    \E q \in Pins :
        /\ ext' = IF q \in ext THEN ext \ {q} ELSE ext \cup {q}
        /\ UNCHANGED <<writebuf, readbuf, dev, dirs, call, writes, acked,
                       faulty, want, serialized, th>>

\* ------------------------------------------------- round-trip inputs
\* The first register write of a run, with a value of RTVals.
FirstWriteGpio ==
    /\ writes = "none"
    /\ \E val \in RTVals :
           Commit(write_gpio(Machine(<<"ack">>), val), "write_gpio", -2, val)

ReadAnyPin ==
    \E pin \in AllPins, oks \in OkOnce :
        Commit(read_pin(Machine(oks), pin), "read_pin", pin, "none")

\* ------------------------------------------------------- two threads
\* A thread enters write_pin(pin, val) and reads self._writebuf[0].
ThreadRead0(t) ==
    /\ ~serialized
    /\ th[t].pc = "idle"
    /\ \E pin \in Pins, val \in BOOLEAN :
           /\ \A u \in Threads \ {t} : th[u].pin # pin
           /\ th' = [th EXCEPT ![t] = [pc |-> "rd1", pin |-> pin, val |-> val,
                                       lo |-> writebuf[1], v |-> 0]]
    /\ UNCHANGED <<writebuf, readbuf, dev, ext, dirs, call, writes, acked,
                   faulty, want, serialized>>

\* It reads self._writebuf[1] and computes the value for write_gpio.
ThreadRead1(t) ==
    /\ th[t].pc = "rd1"
    /\ th' = [th EXCEPT ![t].pc = "st0",
                        ![t].v = pin_value(Decode(<<th[t].lo, writebuf[2]>>),
                                           th[t].pin, th[t].val)]
    /\ UNCHANGED <<writebuf, readbuf, dev, ext, dirs, call, writes, acked,
                   faulty, want, serialized>>

\* self._writebuf[0] = val & 0xFF
ThreadStore0(t) ==
    /\ th[t].pc = "st0"
    /\ writebuf' = [writebuf EXCEPT ![1] = Encode(th[t].v)[1]]
    /\ th' = [th EXCEPT ![t].pc = "st1"]
    /\ UNCHANGED <<readbuf, dev, ext, dirs, call, writes, acked, faulty, want,
                   serialized>>

\* self._writebuf[1] = (val >> 8) & 0xFF
ThreadStore1(t) ==
    /\ th[t].pc = "st1"
    /\ writebuf' = [writebuf EXCEPT ![2] = Encode(th[t].v)[2]]
    /\ th' = [th EXCEPT ![t].pc = "bus"]
    /\ UNCHANGED <<readbuf, dev, ext, dirs, call, writes, acked, faulty, want,
                   serialized>>

\* i2c.write(self._writebuf): the buffer as it is now goes out.
ThreadBusWrite(t) ==
    /\ th[t].pc = "bus"
    /\ LET m == i2c_write(Machine(<<"ack">>)) IN
           CommitCall(m, "write_pin", th[t].pin, th[t].val)
    /\ th' = [th EXCEPT ![t].pc = "done"]

\* The whole of write_pin under a lock.
ThreadLockedWritePin(t) ==
    /\ serialized
    /\ th[t].pc = "idle"
    /\ \E pin \in Pins, val \in BOOLEAN :
           /\ \A u \in Threads \ {t} : th[u].pin # pin
           /\ CommitCall(write_pin(Machine(<<"ack">>), pin, val),
                         "write_pin", pin, val)
           /\ th' = [th EXCEPT ![t] = [pc |-> "done", pin |-> pin, val |-> val,
                                       lo |-> writebuf[1],
                                       v |-> pin_value(Decode(writebuf), pin, val)]]

\* The main thread presets the register before the threads start.
PresetGpio ==
    /\ \A t \in Threads : th[t].pc = "idle"
    /\ CallWriteGpio

\* --------------------------------------------------- specifications
\* The pin handles, on a bus that never fails.
Next ==
    \/ CallWriteGpio \/ NewDigitalInOut \/ CallGetPin \/ SetValue
    \/ SetDirection \/ SetPull \/ SwitchToOutput \/ SwitchToInput

Spec == Init /\ [][Next]_vars

\* Only value sets and gets through pin handles.
NextValue == NewDigitalInOut \/ CallGetPin \/ SetValue \/ GetValue

SpecValue == Init /\ [][NextValue]_vars

\* The register interface, with an outside circuit on the pins.
NextReg ==
    \/ CallWriteGpio \/ CallReadGpio \/ CallWritePin \/ CallReadPin
    \/ ExternalDrive

SpecReg == Init /\ [][NextReg]_vars

\* Writes on a bus that may fail.
NextFault == CallWriteGpio \/ CallWritePin \/ CallGetPin \/ SetDirection

SpecFault == InitFault /\ [][NextFault]_vars

\* One write of any value, then reads, against a device that echoes it.
NextRT == FirstWriteGpio \/ CallReadGpio \/ ReadAnyPin

SpecRT == Init /\ [][NextRT]_vars

\* Two threads, one write_pin each, on different pins.
NextThreads ==
    \/ PresetGpio
    \/ \E t \in Threads :
           \/ ThreadRead0(t) \/ ThreadRead1(t) \/ ThreadStore0(t)
           \/ ThreadStore1(t) \/ ThreadBusWrite(t) \/ ThreadLockedWritePin(t)

SpecThreads == InitThreads /\ [][NextThreads]_vars

\* ------------------------------------------------------------ claims
Level(b) == IF b THEN 1 ELSE 0

\* The other fifteen bits of a and b agree.
SameExcept(a, b, pin) == \A q \in AllPins \ {pin} : Bit(a, q) = Bit(b, q)

\* C1: on a bus without errors, from a fresh object on a chip at 0xFFFF, a
\* value set on pin i (0..15) leaves bit i of the chip's register equal to
\* the value set and the other 15 bits of the chip's register as they were.
C1_NoCrosstalk ==
    [][(call'.name = "value_set" /\ call'.pin \in AllPins)
          => /\ call'.raised = "none"
             /\ Bit(dev', call'.pin) = Level(call'.arg)
             /\ SameExcept(dev', dev, call'.pin)]_vars

\* C2: the cache of a fresh object is 0xFFFF: its first write_pin(p, val)
\* leaves the fifteen other bits of the cache at 1, and transmits 0xFFFF with
\* bit p cleared when val is false and 0xFFFF when it is true, low byte first.
C2_FreshCacheAllOnes ==
    (writes = "first" /\ call.name = "write_pin")
      => /\ SameExcept(Decode(writebuf), RegMax, call.pin)
         /\ call.tx = << <<(IF call.arg THEN RegMax
                                ELSE RegMax - Pow2(call.pin)) % 256,
                               (IF call.arg THEN RegMax
                                ELSE RegMax - Pow2(call.pin)) \div 256>> >>

\* C3: switch_to_input with pull Up or with pull unset completes without
\* raising, leaves the direction tag Input, and transmits the pin's bit as 1.
C3_SwitchToInputSucceeds ==
    (call.name = "switch_to_input" /\ call.arg \in {"UP", "None"}
        /\ call.pin \in AllPins)
      => /\ call.raised = "none"
         /\ dirs[call.pin] = "INPUT"
         /\ call.tx # <<>>
         /\ \A i \in 1..Len(call.tx) : Bit(LatchOf(call.tx[i]), call.pin) = 1

\* C4: switch_to_output(value) leaves the direction tag Output and issues
\* exactly one bus write, that of write_pin(pin, value): the cached value with
\* the pin's bit set to value; so no value with the pin's bit at 0 goes out
\* when value is true and the cached bit was 1.
C4_SwitchToOutputOneWrite ==
    [][(call'.name = "switch_to_output" /\ call'.pin \in AllPins)
          => /\ dirs'[call'.pin] = "OUTPUT"
             /\ Len(call'.tx) = 1
             /\ Bit(LatchOf(call'.tx[1]), call'.pin) = Level(call'.arg)
             /\ SameExcept(LatchOf(call'.tx[1]), Decode(writebuf), call'.pin)]_vars

\* C5: constructing a handle, directly or through get_pin, on a pin outside
\* 0..15 raises and makes no handle, on pins 0 and 15 it succeeds; so every
\* handle's pin is within 0..15.
C5_HandlePinsInRange ==
    /\ \A p \in Handles : 0 <= p /\ p <= 15
    /\ (call.name \in {"DigitalInOut", "get_pin"} /\ call.pin \notin AllPins)
          => call.raised # "none"
    /\ (call.name \in {"DigitalInOut", "get_pin"} /\ call.pin \in {0, 15})
          => (call.raised = "none" /\ call.pin \in Handles)

\* C6: setting the pull to Down raises the unsupported-configuration error
\* whatever the direction tag, with no bus transaction, and the cached value,
\* the chip and the direction tags stay as they were.
C6_PullDownRejected ==
    [][(call'.name = "pull_set" /\ call'.arg = "DOWN")
          => /\ call'.raised = "NotImplementedError"
             /\ call'.tx = <<>> /\ call'.rx = 0
             /\ writebuf' = writebuf /\ dev' = dev /\ dirs' = dirs]_vars

\* C6's case: a pull-down request on an output pin was refused.
C6_Witness ==
    /\ call.name = "pull_set" /\ call.arg = "DOWN" /\ call.pin \in AllPins
    /\ dirs[call.pin] = "OUTPUT"
    /\ call.raised = "NotImplementedError"
    /\ Bit(Decode(writebuf), call.pin) = 0

\* C7: write_gpio(v) transmits the low byte of v and then its high byte;
\* read_gpio against a chip that echoes its latch then returns v, and
\* read_pin(b) returns bit b of v.
C7_RoundTrip ==
    /\ call.name = "write_gpio"
          => call.tx = << <<SumBits({i \in 0..7 : Bit(call.arg, i) = 1}),
                            SumBits({i \in 0..7 : Bit(call.arg, i + 8) = 1})>> >>
    /\ (call.name = "read_gpio" /\ want >= 0) => call.ret = want
    /\ (call.name = "read_pin" /\ want >= 0)
          => call.ret = (Bit(want, call.pin) = 1)

\* C7's case: 0xFFF7 was written and pin 3 read back low.
C7_Witness ==
    /\ want = RegMax - 8
    /\ call.name = "read_pin" /\ call.pin = 3 /\ call.ret = FALSE
    /\ readbuf = <<247, 255>>

AllDone == \A t \in Threads : th[t].pc = "done"

\* The cache shows the write_pin of thread t.
Reflected(t) == Bit(Decode(writebuf), th[t].pin) = Level(th[t].val)

\* C8: with every write_pin run as one critical section, two threads that
\* wrote two different pins both find their change in the cache and in the
\* last value transmitted (the lost update is C8_Witness, without the lock).
C8_NoLostUpdateWhenSerialized ==
    (serialized /\ AllDone)
      => /\ \A t \in Threads : Reflected(t)
         /\ dev = Decode(writebuf)

\* C8's case: without the lock both calls have returned, and the cache and
\* the value last transmitted hold the change of one thread only.
C8_Witness ==
    /\ ~serialized /\ AllDone
    /\ dev = Decode(writebuf)
    /\ \E t \in Threads, u \in Threads : Reflected(t) /\ ~Reflected(u)

\* C9: write_pin issues one bus write and no bus read, and what it transmits
\* is the cached value with the pin's bit set to val; read_gpio and read_pin
\* leave the cache alone and write nothing.
C9_CacheOnly ==
    [][/\ call'.name = "write_pin"
             => /\ Len(call'.tx) = 1 /\ call'.rx = 0
                /\ Bit(LatchOf(call'.tx[1]), call'.pin) = Level(call'.arg)
                /\ SameExcept(LatchOf(call'.tx[1]), Decode(writebuf), call'.pin)
       /\ call'.name \in {"read_gpio", "read_pin"}
             => (writebuf' = writebuf /\ call'.tx = <<>> /\ call'.rx = 1)]_vars

\* C9's case: a pin that is pulled low from outside was read low, and a
\* write_pin on another pin still transmitted it high.
C9_Witness ==
    /\ call.name = "write_pin"
    /\ \E q \in ext, r \in AllPins :
          /\ q # call.pin
          /\ Bit(Decode(readbuf), r) = 1
          /\ Bit(Decode(readbuf), q) = 0
          /\ Bit(LatchOf(call.tx[1]), q) = 1

\* C10 as claimed: once a bus write has completed, the cache equals the value
\* of the last bus write that completed.
C10_CacheIsLastAcknowledged == acked >= 0 => Decode(writebuf) = acked

\* C10 as amended: the cache holds the value of the last bus write attempted,
\* completed or not; a failed write raises to the caller and leaves the
\* direction tags as they were, and a completed one is what the chip holds.
C10_CacheIsLastAttempted ==
    [][/\ call'.name = "write_gpio"
             => Decode(writebuf') = call'.arg % (RegMax + 1)
       /\ (call'.name = "write_pin" /\ call'.pin \in AllPins)
             => /\ Bit(Decode(writebuf'), call'.pin) = Level(call'.arg)
                /\ SameExcept(Decode(writebuf'), Decode(writebuf), call'.pin)
       /\ (call'.name = "direction_set" /\ call'.arg # "other")
             => /\ Bit(Decode(writebuf'), call'.pin) = Level(call'.arg = "INPUT")
                /\ SameExcept(Decode(writebuf'), Decode(writebuf), call'.pin)
       /\ call'.tx # <<>>
             => /\ call'.raised \in {"none", "OSError"}
                /\ call'.raised = "OSError" => (dirs' = dirs /\ acked' = acked)
                /\ call'.raised = "none"
                      => (dev' = Decode(writebuf') /\ acked' = dev')]_vars

\* C10's case: a write_pin failed on the bus after a completed write, and the
\* cache holds the failed value, not the completed one.
C10_Witness ==
    /\ acked >= 0
    /\ call.name = "write_pin" /\ call.raised = "OSError"
    /\ Bit(Decode(writebuf), call.pin) = Level(call.arg)
    /\ Decode(writebuf) # acked

=============================================================================
